---- MODULE Spec2Model ----
(***************************************************************************)
(* Model of the table-booking request handler                              *)
(* (src/task11/src/lambdas/api_handler/handler.py).                        *)
(*                                                                         *)
(* Strings the code inspects character by character (the "HH:MM" times     *)
(* given to strptime) are sequences of one-character strings. The two      *)
(* DynamoDB tables are the variables tables and reservations. Each         *)
(* container of the function handles one request at a time; a request is   *)
(* split at the calls it makes to the stores, which is where another       *)
(* container's request can interleave.                                     *)
(***************************************************************************)
EXTENDS Integers, Sequences, FiniteSets, TLC

VARIABLES
    tables,        \* the Tables store: the items put, one per id
    reservations,  \* the Reservations store: the items put, in the order put
    users,         \* the users of the Cognito user pool
    pc,            \* per container: where its request stands
    req,           \* per container: the event it is handling
    response,      \* per container: what handle_request returned
    log,           \* per container: the store calls made, the exception logged
    call           \* a call of is_overlapping on its own: arguments, result

vars == <<tables, reservations, users, pc, req, response, log, call>>

(***************************************************************************)
(* datetime.datetime.strptime(s, "%H:%M").time()                           *)
(***************************************************************************)
DigitVal(c) ==
    CASE c = "0" -> 0 [] c = "1" -> 1 [] c = "2" -> 2 [] c = "3" -> 3
      [] c = "4" -> 4 [] c = "5" -> 5 [] c = "6" -> 6 [] c = "7" -> 7
      [] c = "8" -> 8 [] c = "9" -> 9 [] OTHER -> -1

IsDigit(c) == DigitVal(c) >= 0

\* The value of a run of one or two digits, -1 for anything else.
NumberOf(s) ==
    IF Len(s) = 1 /\ IsDigit(s[1]) THEN DigitVal(s[1])
    ELSE IF Len(s) = 2 /\ IsDigit(s[1]) /\ IsDigit(s[2])
         THEN 10 * DigitVal(s[1]) + DigitVal(s[2])
         ELSE -1

\* The value strptime cannot produce: the call raised ValueError.
NoTime == [hour |-> -1, minute |-> -1]

\* %H is 2[0-3]|[0-1]\d|\d, %M is [0-5]\d|\d, and the whole string must be
\* consumed ("unconverted data remains" otherwise).
strptime(s) ==
    LET colons == {i \in 1..Len(s) : s[i] = ":"}
    IN  IF Cardinality(colons) # 1 THEN NoTime
        ELSE LET i == CHOOSE k \in colons : TRUE
                 h == NumberOf(SubSeq(s, 1, i - 1))
                 m == NumberOf(SubSeq(s, i + 1, Len(s)))
             IN  IF h >= 0 /\ h <= 23 /\ m >= 0 /\ m <= 59
                 THEN [hour |-> h, minute |-> m]
                 ELSE NoTime

\* datetime.time ordering: by hour, then by minute.
TimeLeq(a, b) == a.hour < b.hour \/ (a.hour = b.hour /\ a.minute <= b.minute)

\* is_overlapping without its second test: only the candidate's start is looked at.
is_overlapping_start_only(start1, end1, start2, end2) ==
    LET s1 == strptime(start1)
        e1 == strptime(end1)
        s2 == strptime(start2)
        e2 == strptime(end2)
    IN  IF NoTime \in {s1, e1, s2, e2} THEN "ValueError"
        ELSE IF TimeLeq(s1, s2) /\ TimeLeq(s2, e1) THEN "True" ELSE "False"

\* is_overlapping with < for every <=: the ends of the existing slot are left out.
is_overlapping_exclusive(start1, end1, start2, end2) ==
    LET s1 == strptime(start1)
        e1 == strptime(end1)
        s2 == strptime(start2)
        e2 == strptime(end2)
    IN  IF NoTime \in {s1, e1, s2, e2} THEN "ValueError"
        ELSE IF \/ (~TimeLeq(s2, s1) /\ ~TimeLeq(e1, s2))
                \/ (~TimeLeq(e2, s1) /\ ~TimeLeq(e1, e2))
             THEN "True"
             ELSE "False"

\* is_overlapping with its first chained comparison cut short: any candidate
\* that starts at or after the existing start is flagged.
is_overlapping_half_test(start1, end1, start2, end2) ==
    LET s1 == strptime(start1)
        e1 == strptime(end1)
        s2 == strptime(start2)
        e2 == strptime(end2)
    IN  IF NoTime \in {s1, e1, s2, e2} THEN "ValueError"
        ELSE IF TimeLeq(s1, s2) \/ (TimeLeq(s1, e2) /\ TimeLeq(e2, e1))
             THEN "True"
             ELSE "False"

\* The textbook test in place of is_overlapping: two intervals overlap when
\* each starts no later than the other ends.
is_overlapping_symmetric(start1, end1, start2, end2) ==
    LET s1 == strptime(start1)
        e1 == strptime(end1)
        s2 == strptime(start2)
        e2 == strptime(end2)
    IN  IF NoTime \in {s1, e1, s2, e2} THEN "ValueError"
        ELSE IF TimeLeq(s1, e2) /\ TimeLeq(s2, e1) THEN "True" ELSE "False"

(***************************************************************************)
(* ApiHandler.is_overlapping: "True", "False", or "ValueError" when one of *)
(* the four strings does not parse.                                        *)
(***************************************************************************)
is_overlapping(start1, end1, start2, end2) ==
    LET s1 == strptime(start1)
        e1 == strptime(end1)
        s2 == strptime(start2)
        e2 == strptime(end2)
    IN  IF NoTime \in {s1, e1, s2, e2} THEN "ValueError"
        ELSE IF \/ (TimeLeq(s1, s2) /\ TimeLeq(s2, e1))
                \/ (TimeLeq(s1, e2) /\ TimeLeq(e2, e1))
             THEN "True"
             ELSE "False"

(***************************************************************************)
(* Requests. An event is [method, path, body]; a path is the sequence of   *)
(* its segments ("/api/tables/1" is <<"api", "tables", "1">>); a body is   *)
(* absent, text that is not JSON, or a JSON object, whose scalar values    *)
(* are kept as their text.                                                 *)
(***************************************************************************)
NoBody == [kind |-> "absent"]
InvalidJson == [kind |-> "invalid"]
JsonObject(f) == [kind |-> "object", fields |-> f]

EmptyDict == <<>>

\* Lines 38-41: request_body = {} unless the event has a non-empty body,
\* which json.loads must accept.
BodyIsJson(ev) == ev.body.kind # "invalid"

request_body(ev) == IF ev.body.kind = "object" THEN ev.body.fields ELSE EmptyDict

\* Lines 35-36: path.replace("/api", "") when the path starts with "/api".
\* No segment of a modelled path merely begins with "api".
StripApi(path) ==
    IF Len(path) > 0 /\ path[1] = "api"
    THEN SelectSeq(path, LAMBDA seg : seg # "api")
    ELSE path

\* int() of a path segment matched by \d+, -1 when the segment has a non-digit.
IntOfSegment(seg) ==
    CASE seg = "1" -> 1 [] seg = "2" -> 2 [] seg = "3" -> 3 [] OTHER -> -1

\* Lines 45-145: the branch handle_request takes.
Route(ev) ==
    LET path == StripApi(ev.path)
    IN  CASE ev.method = "POST" /\ path = <<"signup">> -> "signup"
          [] ev.method = "POST" /\ path = <<"signin">> -> "signin"
          [] ev.method = "GET" /\ path = <<"tables">> -> "get_tables"
          [] ev.method = "POST" /\ path = <<"tables">> -> "create_table"
          [] /\ ev.method = "GET" /\ Len(path) = 2
             /\ path[1] = "tables" /\ IntOfSegment(path[2]) >= 0 -> "get_table"
          [] ev.method = "POST" /\ path = <<"reservations">> -> "create_reservation"
          [] ev.method = "GET" /\ path = <<"reservations">> -> "get_reservations"
          [] OTHER -> "not_found"

\* int(x) for the text of a JSON value: -1 stands for ValueError (no modelled
\* request carries a negative number).
int(text) == NumberOf(text)

\* bool(x) for the text of a JSON value: false, 0, "" and null are falsy, every
\* other value (the string "false" too) is truthy.
bool(text) == text \notin {"false", "0", "\"\"", "null"}

(***************************************************************************)
(* The exceptions the handler catches at line 146 and logs at line 147.    *)
(***************************************************************************)
NoError == "none"
JSONDecodeError == "JSONDecodeError"
KeyError == "KeyError"
IntValueError == "ValueError: invalid literal for int()"
TableNotFound == "ValueError: Table not found"
SlotConflict == "ValueError: Reservation time is overlapping with another reservation"
TimeParseError == "ValueError: time data does not match format"

(***************************************************************************)
(* State of a container between requests.                                  *)
(***************************************************************************)
NoEvent == [method |-> "", path |-> <<>>, body |-> NoBody]
NoResponse == [statusCode |-> 0]
NoLog == [calls |-> <<>>, error |-> NoError, seen |-> 0]

\* A 400 that tells the caller what was raised.
ClientError_with_detail == [statusCode |-> 400, body |-> "Bad Request"]

\* The response of lines 146-149: a bare status, no body.
ClientError == [statusCode |-> 400]

\* The request of container p ends with response resp, after the store calls
\* `calls`, having raised `error`.
Finish(p, ev, resp, calls, error) ==
    /\ pc' = [pc EXCEPT ![p] = "done"]
    /\ req' = [req EXCEPT ![p] = ev]
    /\ response' = [response EXCEPT ![p] = resp]
    /\ log' = [log EXCEPT ![p] = [calls |-> calls, error |-> error, seen |-> log[p].seen]]

(***************************************************************************)
(* Lines 40-41 and 146-149: json.loads rejects the body, before any route  *)
(* is looked at.                                                           *)
(***************************************************************************)
MalformedBody(p, ev) ==
    /\ pc[p] = "idle"
    /\ ~BodyIsJson(ev)
    /\ Finish(p, ev, ClientError, <<>>, JSONDecodeError)
    /\ UNCHANGED <<tables, reservations, users, call>>

\* Lines 140-145: no route matches.
NotFound(p, ev) ==
    /\ pc[p] = "idle"
    /\ BodyIsJson(ev)
    /\ Route(ev) = "not_found"
    /\ Finish(p, ev, [statusCode |-> 404, body |-> "Not Found"], <<>>, NoError)
    /\ UNCHANGED <<tables, reservations, users, call>>

(***************************************************************************)
(* Tables.                                                                 *)
(***************************************************************************)
\* Lines 78-84: the first exception the conversions of the body raise.
TableArgsError(b) ==
    IF "id" \notin DOMAIN b THEN KeyError
    ELSE IF int(b.id) < 0 THEN IntValueError
    ELSE IF "number" \notin DOMAIN b THEN KeyError
    ELSE IF int(b.number) < 0 THEN IntValueError
    ELSE IF "places" \notin DOMAIN b THEN KeyError
    ELSE IF int(b.places) < 0 THEN IntValueError
    ELSE IF "isVip" \notin DOMAIN b THEN KeyError
    ELSE IF "minOrder" \in DOMAIN b /\ int(b.minOrder) < 0 THEN IntValueError
    ELSE NoError

\* Lines 303-310: the item create_table puts.
TableItem(b) ==
    LET item == [id |-> int(b.id), number |-> int(b.number),
                 places |-> int(b.places), isVip |-> bool(b.isVip)]
    IN  IF "minOrder" \in DOMAIN b
        THEN [id |-> item.id, number |-> item.number, places |-> item.places,
              isVip |-> item.isVip, minOrder |-> int(b.minOrder)]
        ELSE item

\* put_item on a store keyed by number: the item replaces the one with its
\* number.
PutTable_by_number(store, item) == {t \in store : t.number # item.number} \cup {item}

\* put_item with a condition on the key: an id already stored keeps its item.
PutTable_if_absent(store, item) ==
    IF \E t \in store : t.id = item.id THEN store ELSE store \cup {item}

\* put_item on the Tables store: the item replaces the one with its key.
PutTable(store, item) == {t \in store : t.id # item.id} \cup {item}

\* Lines 76-93 and 294-312.
CreateTable(p, ev) ==
    /\ pc[p] = "idle"
    /\ BodyIsJson(ev)
    /\ Route(ev) = "create_table"
    /\ LET b == request_body(ev)
           err == TableArgsError(b)
       IN  IF err # NoError
           THEN /\ Finish(p, ev, ClientError, <<>>, err)
                /\ UNCHANGED tables
           ELSE /\ tables' = PutTable(tables, TableItem(b))
                /\ Finish(p, ev, [statusCode |-> 200, body |-> [id |-> int(b.id)]],
                          <<"tables.put_item">>, NoError)
    /\ UNCHANGED <<reservations, users, call>>

\* What scan and get_item hand back for an item put into the Tables store: a
\* number comes back as a decimal.Decimal (its integer part and its fraction,
\* which is zero for the integers create_table puts), a boolean as a boolean.
Decimal(n) == [type |-> "Decimal", units |-> n, fraction |-> 0]

FromStore(item) ==
    [f \in DOMAIN item |->
        IF f = "isVip" THEN [type |-> "bool", value |-> item[f]] ELSE Decimal(item[f])]

\* Lines 187-196, on a dict: a Decimal becomes int(data), which drops the
\* fraction; any other value is returned as it is.
serialize(data) ==
    [f \in DOMAIN data |->
        IF data[f].type = "Decimal" THEN data[f].units ELSE data[f].value]

\* The orders in which a scan of the Tables store can yield its items.
TableScans ==
    LET n == Cardinality(tables)
    IN  {[i \in 1..n |-> FromStore(f[i])] :
            f \in {g \in [1..n -> tables] : \A i, j \in 1..n : g[i] = g[j] => i = j}}

\* Where sorted() puts an item among items already in ascending order of id:
\* after every item whose id is not greater (the sort is stable).
InsertById(item, seq) ==
    LET k == Cardinality({i \in 1..Len(seq) : seq[i].id <= item.id})
    IN  SubSeq(seq, 1, k) \o <<item>> \o SubSeq(seq, k + 1, Len(seq))

\* sorted(tables, key=lambda table: table["id"])
RECURSIVE sorted(_)
sorted(seq) ==
    IF seq = <<>> THEN <<>>
    ELSE InsertById(seq[Len(seq)], sorted(SubSeq(seq, 1, Len(seq) - 1)))

\* get_tables without its sorted(): the tables in the order of the scan.
get_tables_in_scan_order(scan) == [i \in DOMAIN scan |-> serialize(scan[i])]

\* Lines 266-272, for what the scan yielded.
get_tables(scan) == sorted([i \in DOMAIN scan |-> serialize(scan[i])])

\* Lines 64-75.
GetTables(p, ev) ==
    /\ pc[p] = "idle"
    /\ BodyIsJson(ev)
    /\ Route(ev) = "get_tables"
    /\ \E scan \in TableScans :
           Finish(p, ev, [statusCode |-> 200, body |-> [tables |-> get_tables(scan)]],
                  <<"tables.scan">>, NoError)
    /\ UNCHANGED <<tables, reservations, users, call>>

\* get_table answering for an unknown id with an empty table.
get_table_or_empty(table_id) ==
    LET found == {t \in tables : t.id = table_id}
    IN  IF found = {} THEN [error |-> NoError, table |-> [id |-> table_id]]
        ELSE [error |-> NoError, table |-> serialize(FromStore(CHOOSE t \in found : TRUE))]

\* Lines 314-319: get_item answers without "Item" for an unknown key, and
\* response["Item"] raises KeyError.
get_table(table_id) ==
    LET found == {t \in tables : t.id = table_id}
    IN  IF found = {} THEN [error |-> KeyError, table |-> [id |-> table_id]]
        ELSE [error |-> NoError, table |-> serialize(FromStore(CHOOSE t \in found : TRUE))]

\* Lines 94-104.
GetTable(p, ev) ==
    /\ pc[p] = "idle"
    /\ BodyIsJson(ev)
    /\ Route(ev) = "get_table"
    /\ LET got == get_table(IntOfSegment(StripApi(ev.path)[2]))
       IN  IF got.error # NoError
           THEN Finish(p, ev, ClientError, <<"tables.get_item">>, got.error)
           ELSE Finish(p, ev, [statusCode |-> 200, body |-> got.table],
                       <<"tables.get_item">>, NoError)
    /\ UNCHANGED <<tables, reservations, users, call>>

(***************************************************************************)
(* Reservations.                                                           *)
(***************************************************************************)
\* Bound of the model: the number of reservations stored and being made. A
\* request that passes its table check counts as one being made.
MaxReservations == 3

\* Lines 107-112: the first exception the reads of the body raise.
ReservationArgsError(b) ==
    IF "tableNumber" \notin DOMAIN b THEN KeyError
    ELSE IF int(b.tableNumber) < 0 THEN IntValueError
    ELSE IF ~({"clientName", "phoneNumber", "date", "slotTimeStart", "slotTimeEnd"}
                \subseteq DOMAIN b) THEN KeyError
    ELSE NoError

\* Lines 347-356: the item create_reservation puts, under the id uuid4 gave.
ReservationItem(reservation_id, b) ==
    [id |-> reservation_id, tableNumber |-> int(b.tableNumber),
     clientName |-> b.clientName, phoneNumber |-> b.phoneNumber, date |-> b.date,
     slotTimeStart |-> b.slotTimeStart, slotTimeEnd |-> b.slotTimeEnd]

\* The table looked up by its id where the code compares its number.
TableExists_by_id(table_number) == \E t \in tables : t.id = table_number

\* Lines 331-337: some stored table has this number.
TableExists(table_number) == \E t \in tables : t.number = table_number

\* The create_reservation requests past their table check and not yet ended.
InFlight == {q \in DOMAIN pc : pc[q] \in {"get_reservations", "put_item"}}

\* Lines 105-112 and 330-337: the arguments are read, the Tables store is
\* scanned, and the request goes on only if a table has the number.
CreateReservation(p, ev) ==
    /\ pc[p] = "idle"
    /\ BodyIsJson(ev)
    /\ Route(ev) = "create_reservation"
    /\ LET b == request_body(ev)
           err == ReservationArgsError(b)
       IN  IF err # NoError
           THEN Finish(p, ev, ClientError, <<>>, err)
           ELSE IF ~TableExists(int(b.tableNumber))
           THEN Finish(p, ev, ClientError, <<"tables.scan">>, TableNotFound)
           ELSE /\ Len(reservations) + Cardinality(InFlight) < MaxReservations
                /\ pc' = [pc EXCEPT ![p] = "get_reservations"]
                /\ req' = [req EXCEPT ![p] = ev]
                /\ log' = [log EXCEPT ![p] = [calls |-> <<"tables.scan">>,
                                              error |-> NoError, seen |-> 0]]
                /\ UNCHANGED response
    /\ UNCHANGED <<tables, reservations, users, call>>

\* The loop of lines 340-345 with the arguments of is_overlapping swapped: the
\* stored slot is tested against the proposed one.
CheckOutcomes_swapped(items, b) ==
    {is_overlapping(b.slotTimeStart, b.slotTimeEnd, r.slotTimeStart, r.slotTimeEnd) :
        r \in {x \in items : x.tableNumber = int(b.tableNumber) /\ x.date = b.date}}
    \ {"False"}

Items(store) == {store[i] : i \in 1..Len(store)}

\* The loop of lines 340-345 without its test of the table number: every
\* stored reservation of the date is checked.
CheckOutcomes_any_table(items, b) ==
    {is_overlapping(r.slotTimeStart, r.slotTimeEnd, b.slotTimeStart, b.slotTimeEnd) :
        r \in {x \in items : x.date = b.date}}
    \ {"False"}

\* The loop of lines 340-345 without its test of the date: every stored
\* reservation of the table is checked.
CheckOutcomes_any_date(items, b) ==
    {is_overlapping(r.slotTimeStart, r.slotTimeEnd, b.slotTimeStart, b.slotTimeEnd) :
        r \in {x \in items : x.tableNumber = int(b.tableNumber)}}
    \ {"False"}

\* Lines 340-345: what the loop over the scanned reservations can end with.
\* The scan yields the items in no particular order, and the loop stops at
\* the first item of the same table and date for which is_overlapping does
\* not return False: any such item can be that first one.
CheckOutcomes(items, b) ==
    {is_overlapping(r.slotTimeStart, r.slotTimeEnd, b.slotTimeStart, b.slotTimeEnd) :
        r \in {x \in items : x.tableNumber = int(b.tableNumber) /\ x.date = b.date}}
    \ {"False"}

\* The check of lines 339-345 answering a conflict with a status of its own.
CheckReservations_telling(p) ==
    /\ pc[p] = "get_reservations"
    /\ LET b == request_body(req[p])
           outcomes == CheckOutcomes(Items(reservations), b)
           calls == Append(log[p].calls, "reservations.scan")
       IN  IF outcomes = {}
           THEN /\ pc' = [pc EXCEPT ![p] = "put_item"]
                /\ log' = [log EXCEPT ![p] = [calls |-> calls, error |-> NoError,
                                              seen |-> Len(reservations)]]
                /\ UNCHANGED <<req, response>>
           ELSE \E o \in outcomes :
                    /\ pc' = [pc EXCEPT ![p] = "done"]
                    /\ response' = [response EXCEPT ![p] =
                                       IF o = "True" THEN [statusCode |-> 409]
                                       ELSE ClientError]
                    /\ log' = [log EXCEPT ![p] =
                                  [calls |-> calls,
                                   error |-> IF o = "True" THEN SlotConflict
                                             ELSE TimeParseError,
                                   seen |-> Len(reservations)]]
                    /\ UNCHANGED req
    /\ UNCHANGED <<tables, reservations, users, call>>

\* Lines 339-345 and 360-365: the Reservations store is scanned and the slot
\* is checked against what the scan returned.
CheckReservations(p) ==
    /\ pc[p] = "get_reservations"
    /\ LET b == request_body(req[p])
           outcomes == CheckOutcomes(Items(reservations), b)
           calls == Append(log[p].calls, "reservations.scan")
       IN  IF outcomes = {}
           THEN /\ pc' = [pc EXCEPT ![p] = "put_item"]
                /\ log' = [log EXCEPT ![p] = [calls |-> calls, error |-> NoError,
                                              seen |-> Len(reservations)]]
                /\ UNCHANGED <<req, response>>
           ELSE \E o \in outcomes :
                    /\ pc' = [pc EXCEPT ![p] = "done"]
                    /\ response' = [response EXCEPT ![p] = ClientError]
                    /\ log' = [log EXCEPT ![p] =
                                  [calls |-> calls,
                                   error |-> IF o = "True" THEN SlotConflict
                                             ELSE TimeParseError,
                                   seen |-> Len(reservations)]]
                    /\ UNCHANGED req
    /\ UNCHANGED <<tables, reservations, users, call>>

\* put_item made conditional: the slot is checked again against the store as
\* it is when the item is put.
PutReservation_conditional(p) ==
    /\ pc[p] = "put_item"
    /\ LET b == request_body(req[p])
           stopped == \E r \in Items(reservations) :
                          /\ r.tableNumber = int(b.tableNumber)
                          /\ r.date = b.date
                          /\ is_overlapping(r.slotTimeStart, r.slotTimeEnd,
                                            b.slotTimeStart, b.slotTimeEnd) # "False"
       IN  IF stopped
           THEN /\ pc' = [pc EXCEPT ![p] = "done"]
                /\ response' = [response EXCEPT ![p] = [statusCode |-> 400]]
                /\ log' = [log EXCEPT ![p].error = SlotConflict]
                /\ UNCHANGED reservations
           ELSE /\ reservations' = Append(reservations,
                                          ReservationItem(Len(reservations) + 1, b))
                /\ pc' = [pc EXCEPT ![p] = "done"]
                /\ response' = [response EXCEPT ![p] =
                                   [statusCode |-> 200,
                                    body |-> [reservationId |-> Len(reservations) + 1]]]
                /\ log' = [log EXCEPT ![p].calls = Append(@, "reservations.put_item")]
    /\ UNCHANGED <<tables, users, req, call>>

\* An id generator that hands out the id of the first stored reservation again.
uuid4_repeating == IF reservations = <<>> THEN Len(reservations) + 1 ELSE reservations[1].id

\* uuid.uuid4(): an id no stored reservation has.
uuid4 == Len(reservations) + 1

\* put_item on the Reservations store: the item replaces the one with its
\* id, if there is one, and is a new item of the store otherwise.
PutItem(store, item) ==
    IF \E i \in 1..Len(store) : store[i].id = item.id
    THEN [i \in 1..Len(store) |-> IF store[i].id = item.id THEN item ELSE store[i]]
    ELSE Append(store, item)

\* Lines 347-358 and 124-127: the item is put, whatever the store holds by now.
PutReservation(p) ==
    /\ pc[p] = "put_item"
    /\ LET reservation_id == uuid4
       IN  /\ reservations' = PutItem(reservations,
                                      ReservationItem(reservation_id, request_body(req[p])))
           /\ pc' = [pc EXCEPT ![p] = "done"]
           /\ response' = [response EXCEPT ![p] =
                              [statusCode |-> 200,
                               body |-> [reservationId |-> reservation_id]]]
           /\ log' = [log EXCEPT ![p].calls = Append(@, "reservations.put_item")]
    /\ UNCHANGED <<tables, users, req, call>>

\* The orders in which a scan can yield the items of the store.
ScanOrders(store) ==
    {[i \in 1..Len(store) |-> store[f[i]]] :
        f \in {g \in [1..Len(store) -> 1..Len(store)] :
                  \A i, j \in 1..Len(store) : g[i] = g[j] => i = j}}

\* Lines 128-139 and 360-365.
GetReservations(p, ev) ==
    /\ pc[p] = "idle"
    /\ BodyIsJson(ev)
    /\ Route(ev) = "get_reservations"
    /\ \E listed \in ScanOrders(reservations) :
           Finish(p, ev, [statusCode |-> 200, body |-> [reservations |-> listed]],
                  <<"reservations.scan">>, NoError)
    /\ UNCHANGED <<tables, reservations, users, call>>

\* The response has gone to the caller; the container takes the next request.
Return(p) ==
    /\ pc[p] = "done"
    /\ pc' = [pc EXCEPT ![p] = "idle"]
    /\ req' = [req EXCEPT ![p] = NoEvent]
    /\ response' = [response EXCEPT ![p] = NoResponse]
    /\ log' = [log EXCEPT ![p] = NoLog]
    /\ UNCHANGED <<tables, reservations, users, call>>

(***************************************************************************)
(* Sign-up and sign-in against the Cognito user pool.                      *)
(***************************************************************************)
Letters ==
    {"a", "b", "c", "d", "e", "f", "g", "h", "i", "j", "k", "l", "m", "n", "o", "p",
     "q", "r", "s", "t", "u", "v", "w", "x", "y", "z"}

\* \w
IsWord(c) == c \in Letters \/ IsDigit(c) \/ c = "_"

AllOf(s, from, to, ok(_)) == \A i \in from..to : ok(s[i])

\* Line 200: ^[a-zA-Z0-9_.+-]+@[a-zA-Z0-9-]+\.[a-zA-Z0-9-.]+$
IsLocalChar(c) == IsWord(c) \/ c \in {".", "+", "-"}
IsDomainChar(c) == c \in Letters \/ IsDigit(c) \/ c = "-"
IsTailChar(c) == IsDomainChar(c) \/ c = "."

validate_email(email) ==
    \E at \in 2..Len(email) : \E dot \in (at + 2)..(Len(email) - 1) :
        /\ email[at] = "@"
        /\ email[dot] = "."
        /\ AllOf(email, 1, at - 1, IsLocalChar)
        /\ AllOf(email, at + 1, dot - 1, IsDomainChar)
        /\ AllOf(email, dot + 1, Len(email), IsTailChar)

MinPasswordLength == 12

\* Line 205: ^(?=.*[a-zA-Z])(?=.*\d)(?=.*[^\w\s]).{12,}$
validate_password(password) ==
    /\ \E i \in 1..Len(password) : password[i] \in Letters
    /\ \E i \in 1..Len(password) : IsDigit(password[i])
    /\ \E i \in 1..Len(password) : ~IsWord(password[i]) /\ password[i] # " "
    /\ Len(password) >= MinPasswordLength

InvalidEmail == "ValueError: Invalid email"
InvalidPassword == "ValueError: Invalid password"
UsernameExists == "UsernameExistsException"
NotAuthorized == "NotAuthorizedException"

\* The deployment: the user pools and the pool's clients that Cognito lists.
USER_POOL_NAME == "cmtr-62505701-simple-booking-userpool-test"
USER_POOL_CLIENT_NAME == "simple-booking-client"
UserPools == {USER_POOL_NAME}
UserPoolClients == {USER_POOL_CLIENT_NAME}
PoolNotFound == "ValueError: User pool not found"
ClientNotFound == "ValueError: User pool client not found"

\* Lines 151-166.
get_user_pool_id(user_pool_name) == user_pool_name \in UserPools

\* Lines 168-185.
get_user_pool_client_id == USER_POOL_CLIENT_NAME \in UserPoolClients

\* Lines 46-49 and 211-214: what stops signup before it creates the user.
SignupError(b) ==
    IF ~({"email", "firstName", "lastName", "password"} \subseteq DOMAIN b) THEN KeyError
    ELSE IF ~validate_email(b.email) THEN InvalidEmail
    ELSE IF ~validate_password(b.password) THEN InvalidPassword
    ELSE IF ~get_user_pool_id(USER_POOL_NAME) THEN PoolNotFound
    ELSE IF \E u \in users : u.username = b.email THEN UsernameExists
    ELSE NoError

\* Lines 45-53 and 208-236: admin_create_user, with a temporary password.
Signup(p, ev) ==
    /\ pc[p] = "idle"
    /\ BodyIsJson(ev)
    /\ Route(ev) = "signup"
    /\ LET b == request_body(ev)
           err == SignupError(b)
           calls == IF err \in {NoError, UsernameExists}
                    THEN <<"cognito.list_user_pools", "cognito.admin_create_user">>
                    ELSE IF err = PoolNotFound THEN <<"cognito.list_user_pools">>
                    ELSE <<>>
       IN  IF err # NoError
           THEN /\ Finish(p, ev, ClientError, calls, err)
                /\ UNCHANGED users
           ELSE /\ users' = users \cup {[username |-> b.email, password |-> b.password,
                                         status |-> "FORCE_CHANGE_PASSWORD"]}
                /\ pc' = [pc EXCEPT ![p] = "set_password"]
                /\ req' = [req EXCEPT ![p] = ev]
                /\ log' = [log EXCEPT ![p] = [calls |-> calls, error |-> NoError,
                                              seen |-> 0]]
                /\ UNCHANGED response
    /\ UNCHANGED <<tables, reservations, call>>

\* Lines 238-244 and 53: admin_set_user_password makes the password permanent.
SetPassword(p) ==
    /\ pc[p] = "set_password"
    /\ LET b == request_body(req[p])
       IN  users' = {u \in users : u.username # b.email}
                    \cup {[username |-> b.email, password |-> b.password,
                           status |-> "CONFIRMED"]}
    /\ pc' = [pc EXCEPT ![p] = "done"]
    /\ response' = [response EXCEPT ![p] = [statusCode |-> 200]]
    /\ log' = [log EXCEPT ![p].calls = Append(@, "cognito.admin_set_user_password")]
    /\ UNCHANGED <<tables, reservations, req, call>>

\* Lines 55-56 and 249-253: what stops signin before initiate_auth.
SigninError(b) ==
    IF ~({"email", "password"} \subseteq DOMAIN b) THEN KeyError
    ELSE IF ~validate_email(b.email) THEN InvalidEmail
    ELSE IF ~validate_password(b.password) THEN InvalidPassword
    ELSE IF ~get_user_pool_id(USER_POOL_NAME) THEN PoolNotFound
    ELSE IF ~get_user_pool_client_id THEN ClientNotFound
    ELSE NoError

\* Lines 54-63 and 246-264: initiate_auth raises for an unknown user or a
\* wrong password; for a user whose password is still temporary it answers
\* with a challenge, without "AuthenticationResult".
Signin(p, ev) ==
    /\ pc[p] = "idle"
    /\ BodyIsJson(ev)
    /\ Route(ev) = "signin"
    /\ LET b == request_body(ev)
           err == SigninError(b)
           lists == <<"cognito.list_user_pools", "cognito.list_user_pool_clients">>
           auth == Append(lists, "cognito.initiate_auth")
       IN  IF err # NoError
           THEN Finish(p, ev, ClientError,
                       IF err = PoolNotFound THEN <<"cognito.list_user_pools">>
                       ELSE IF err = ClientNotFound THEN lists ELSE <<>>, err)
           ELSE IF ~\E u \in users : u.username = b.email /\ u.password = b.password
           THEN Finish(p, ev, ClientError, auth, NotAuthorized)
           ELSE IF ~\E u \in users : u.username = b.email /\ u.status = "CONFIRMED"
           THEN Finish(p, ev, ClientError, auth, KeyError)
           ELSE Finish(p, ev, [statusCode |-> 200,
                               body |-> [accessToken |-> [IdToken |-> b.email]]],
                       auth, NoError)
    /\ UNCHANGED <<tables, reservations, users, call>>

(***************************************************************************)
(* The requests the model sends.                                           *)
(***************************************************************************)
T0930 == <<"9", ":", "3", "0">>
T1000 == <<"1", "0", ":", "0", "0">>
T1100 == <<"1", "1", ":", "0", "0">>
T1200 == <<"1", "2", ":", "0", "0">>
T2400 == <<"2", "4", ":", "0", "0">>

ReservationBody(number, date, start, end) ==
    JsonObject([tableNumber |-> number, clientName |-> "Ann", phoneNumber |-> "555",
                date |-> date, slotTimeStart |-> start, slotTimeEnd |-> end])

\* On table 1 and one date: a slot, one that strictly contains it, one after
\* it, one that ends before it starts, and two with a time strptime rejects;
\* the first slot again under another date string, which writes the same day
\* without its zeros, and on another table.
ReservationBodies ==
    {ReservationBody(<<"1">>, "2024-05-01", T1000, T1100),
     ReservationBody(<<"1">>, "2024-05-01", T0930, T1200),
     ReservationBody(<<"1">>, "2024-05-01", T1200, T1200),
     ReservationBody(<<"1">>, "2024-05-01", T1100, T1000),
     ReservationBody(<<"1">>, "2024-05-01", T2400, T1100),
     ReservationBody(<<"1">>, "2024-05-01", T1000, T2400),
     ReservationBody(<<"1">>, "2024-5-1", T1000, T1100),
     ReservationBody(<<"2">>, "2024-05-01", T1000, T1100)}

\* Bodies the create-reservation route cannot read: a field missing, a table
\* number that is no integer, no body at all.
UnreadableReservationBodies ==
    {JsonObject([tableNumber |-> <<"1">>, clientName |-> "Ann", phoneNumber |-> "555",
                 slotTimeStart |-> T1000, slotTimeEnd |-> T1100]),
     ReservationBody(<<"x">>, "2024-05-01", T1000, T1100),
     NoBody}

TableBodies ==
    {JsonObject([id |-> <<"1">>, number |-> <<"1">>, places |-> <<"4">>, isVip |-> "true"]),
     JsonObject([id |-> <<"1">>, number |-> <<"2">>, places |-> <<"4">>, isVip |-> "true"]),
     JsonObject([id |-> <<"2">>, number |-> <<"1">>, places |-> <<"2">>, isVip |-> "false"]),
     JsonObject([id |-> <<"2">>, number |-> <<"2">>, places |-> <<"2">>,
                 isVip |-> "\"false\"", minOrder |-> <<"5">>])}

UnreadableTableBodies ==
    {JsonObject([id |-> <<"1">>, number |-> <<"1">>, places |-> <<"4">>]),
     JsonObject([id |-> <<"1">>, number |-> <<"1">>, places |-> <<"x">>, isVip |-> "true"])}

Event(method, path, body) == [method |-> method, path |-> path, body |-> body]

CreateReservationEvents ==
    {Event("POST", <<"api", "reservations">>, b) : b \in ReservationBodies}

CreateTableEvents == {Event("POST", <<"tables">>, b) : b \in TableBodies}

\* Requests that end in the 400 of lines 146-149 before any store is called.
UnreadableEvents ==
    {Event("POST", <<"reservations">>, b) : b \in UnreadableReservationBodies}
    \cup {Event("POST", <<"tables">>, b) : b \in UnreadableTableBodies}
    \cup {Event("POST", <<"reservations">>, InvalidJson),
          Event("GET", <<"menu">>, InvalidJson)}

ReadEvents ==
    {Event("GET", <<"api", "tables">>, NoBody),
     Event("GET", <<"tables", "1">>, NoBody),
     Event("GET", <<"api", "tables", "2">>, NoBody),
     Event("GET", <<"reservations">>, NoBody)}

\* Requests no route matches: an unknown path, a known path under another
\* method, a table id that is no number.
UnroutedEvents ==
    {Event("GET", <<"menu">>, NoBody),
     Event("PUT", <<"tables">>, JsonObject([id |-> <<"1">>])),
     Event("GET", <<"tables", "x">>, NoBody),
     Event("POST", <<"api">>, NoBody)}

EmailAnn == <<"a", "n", "n", "@", "x", ".", "i", "o">>
EmailNoDot == <<"a", "n", "n", "@", "x">>
PasswordLong == <<"l", "o", "n", "g", "e", "n", "o", "u", "g", "h", "1", "2", "3", "!">>
PasswordOther == <<"l", "o", "n", "g", "e", "n", "o", "u", "g", "h", "4", "5", "6", "!">>
PasswordShort == <<"s", "h", "o", "r", "t", "1", "!">>

SignupBody(email, password) ==
    JsonObject([email |-> email, firstName |-> "Ann", lastName |-> "Lee",
                password |-> password])

AuthEvents ==
    {Event("POST", <<"signup">>, SignupBody(EmailAnn, PasswordLong)),
     Event("POST", <<"signup">>, SignupBody(EmailNoDot, PasswordLong)),
     Event("POST", <<"signup">>, SignupBody(EmailAnn, PasswordShort)),
     Event("POST", <<"signup">>, JsonObject([email |-> EmailAnn])),
     Event("POST", <<"api", "signin">>,
           JsonObject([email |-> EmailAnn, password |-> PasswordLong])),
     Event("POST", <<"signin">>,
           JsonObject([email |-> EmailAnn, password |-> PasswordOther])),
     Event("POST", <<"signin">>,
           JsonObject([email |-> EmailAnn, password |-> PasswordShort]))}

\* The requests of one-at-a-time execution: every route, readable or not.
Events == CreateReservationEvents \cup CreateTableEvents \cup UnreadableEvents
          \cup ReadEvents \cup UnroutedEvents \cup AuthEvents

\* The requests of the booking core that containers handle concurrently:
\* slots are booked, one request lacking its date, while the table with id 1
\* is made and renumbered.
BookingEvents ==
    CreateReservationEvents
    \cup {ev \in CreateTableEvents : int(request_body(ev).id) = 1}
    \cup {ev \in UnreadableEvents :
             /\ Route(ev) = "create_reservation"
             /\ ev.body.kind = "object"
             /\ "date" \notin DOMAIN request_body(ev)}

\* The requests of the Table Directory: tables are made under three ids, two
\* of the ids with two sets of attributes, the third with a number already in
\* use; tables are listed and read by id; two bodies cannot be read.
DirectoryEvents ==
    CreateTableEvents
    \cup {Event("POST", <<"api", "tables">>,
                JsonObject([id |-> <<"3">>, number |-> <<"1">>, places |-> <<"6">>,
                            isVip |-> "0"]))}
    \cup {ev \in UnreadableEvents : BodyIsJson(ev) /\ Route(ev) = "create_table"}
    \cup {ev \in ReadEvents : Route(ev) \in {"get_tables", "get_table"}}
    \cup {Event("GET", <<"tables", "3">>, NoBody)}

\* The containers of the function that handle requests at the same time.
Containers == {"c1", "c2"}

(***************************************************************************)
(* Specifications.                                                         *)
(***************************************************************************)
NoCall == [args |-> <<>>, result |-> "none"]

InitOver(containers) ==
    /\ tables = {}
    /\ reservations = <<>>
    /\ users = {}
    /\ pc = [p \in containers |-> "idle"]
    /\ req = [p \in containers |-> NoEvent]
    /\ response = [p \in containers |-> NoResponse]
    /\ log = [p \in containers |-> NoLog]
    /\ call = NoCall

\* Spec: the booking core with two containers, whose requests interleave at
\* their store calls.
Init == InitOver(Containers)

Next ==
    \E p \in Containers :
        \/ \E ev \in BookingEvents : CreateTable(p, ev) \/ CreateReservation(p, ev)
        \/ CheckReservations(p)
        \/ PutReservation(p)
        \/ Return(p)

Spec == Init /\ [][Next]_vars

\* SeqSpec: one-at-a-time execution. A single container takes every kind of
\* request, each one only after the one before has returned.
SeqInit == InitOver({"c1"})

SeqNext ==
    \E p \in {"c1"} :
        \/ \E ev \in Events :
              \/ MalformedBody(p, ev)
              \/ NotFound(p, ev)
              \/ Signup(p, ev)
              \/ Signin(p, ev)
              \/ CreateTable(p, ev)
              \/ GetTables(p, ev)
              \/ GetTable(p, ev)
              \/ CreateReservation(p, ev)
              \/ GetReservations(p, ev)
        \/ SetPassword(p)
        \/ CheckReservations(p)
        \/ PutReservation(p)
        \/ Return(p)

SeqSpec == SeqInit /\ [][SeqNext]_vars

\* DirectorySpec: the Table Directory with two containers, which make, list
\* and read tables at the same time.
DirectoryInit == InitOver(Containers)

DirectoryNext ==
    \E p \in Containers :
        \/ \E ev \in DirectoryEvents :
              \/ CreateTable(p, ev)
              \/ GetTables(p, ev)
              \/ GetTable(p, ev)
        \/ Return(p)

DirectorySpec == DirectoryInit /\ [][DirectoryNext]_vars

\* OverlapSpec: is_overlapping on its own, called once on any four of these
\* strings: five times of day (one written twice) and four strings strptime
\* rejects.
TimeStrings ==
    {T0930, <<"0", "9", ":", "3", "0">>, T1000, T1100, T1200,
     T2400, <<"1", "0", ":", "6", "0">>, <<"1", "0", "0", "0">>}

OverlapInit ==
    /\ tables = {}
    /\ reservations = <<>>
    /\ users = {}
    /\ pc = [p \in {"c1"} |-> "idle"]
    /\ req = [p \in {"c1"} |-> NoEvent]
    /\ response = [p \in {"c1"} |-> NoResponse]
    /\ log = [p \in {"c1"} |-> NoLog]
    /\ call \in {[args |-> <<a, b, c, d>>, result |-> "pending"] :
                    a \in TimeStrings, b \in TimeStrings,
                    c \in TimeStrings, d \in TimeStrings}

CallIsOverlapping ==
    /\ call.result = "pending"
    /\ call' = [call EXCEPT !.result =
                   is_overlapping(call.args[1], call.args[2], call.args[3], call.args[4])]
    /\ UNCHANGED <<tables, reservations, users, pc, req, response, log>>

OverlapSpec == OverlapInit /\ [][CallIsOverlapping]_vars

(***************************************************************************)
(* Properties of is_overlapping, under OverlapSpec.                        *)
(***************************************************************************)
\* A valid time is a string strptime accepts; Minutes is its time of day in
\* minutes after midnight.
ValidTime(s) == strptime(s) # NoTime
Minutes(s) == 60 * strptime(s).hour + strptime(s).minute

Returned == call.result # "pending"
ExistingStart == call.args[1]
ExistingEnd == call.args[2]
CandidateStart == call.args[3]
CandidateEnd == call.args[4]
ArgsValid == \A i \in 1..4 : ValidTime(call.args[i])

\* C3: for valid times (a start may be later than its end), is_overlapping
\* returns true exactly when the candidate's start or the candidate's end lies
\* in [existingStart, existingEnd], both bounds included.
C3_OverlapPolicy ==
    (Returned /\ ArgsValid) =>
        /\ call.result \in {"True", "False"}
        /\ call.result = "True" <=>
              \/ /\ Minutes(ExistingStart) <= Minutes(CandidateStart)
                 /\ Minutes(CandidateStart) <= Minutes(ExistingEnd)
              \/ /\ Minutes(ExistingStart) <= Minutes(CandidateEnd)
                 /\ Minutes(CandidateEnd) <= Minutes(ExistingEnd)

\* C3's case: the candidate starts before the existing slot and ends exactly
\* at its start, so only the inclusive bound makes the answer true.
C3_Witness ==
    /\ Returned /\ ArgsValid
    /\ Minutes(CandidateStart) < Minutes(ExistingStart)
    /\ Minutes(CandidateEnd) = Minutes(ExistingStart)
    /\ Minutes(ExistingStart) < Minutes(ExistingEnd)
    /\ call.result = "True"

SameInterval ==
    /\ CandidateStart = ExistingStart
    /\ CandidateEnd = ExistingEnd

\* C7 as stated: is_overlapping(s, e, s, e) is true for every pair of valid
\* times s and e, also when s is later than e.
C7_IdenticalAlwaysFlagged ==
    (Returned /\ ArgsValid /\ SameInterval) => call.result = "True"

\* C7 as amended: is_overlapping(s, e, s, e) is true for every pair of valid
\* times with s <= e, and false for every pair with s later than e.
C7_IdenticalFlaggedWhenOrdered ==
    (Returned /\ ArgsValid /\ SameInterval) =>
        IF Minutes(ExistingStart) <= Minutes(ExistingEnd)
        THEN call.result = "True"
        ELSE call.result = "False"

\* C7's case: an interval of positive length checked against itself.
C7_Witness ==
    /\ Returned /\ ArgsValid /\ SameInterval
    /\ Minutes(ExistingStart) < Minutes(ExistingEnd)
    /\ call.result = "True"

(***************************************************************************)
(* Properties of the booking requests.                                     *)
(***************************************************************************)
\* Container p holds a create-reservation request whose body could be read.
IsBooking(p) ==
    /\ pc[p] # "idle"
    /\ BodyIsJson(req[p])
    /\ Route(req[p]) = "create_reservation"
    /\ ReservationArgsError(request_body(req[p])) = NoError

Booked(p) == request_body(req[p])

SameTableAndDate(r, b) == r.tableNumber = int(b.tableNumber) /\ r.date = b.date

\* The request of p returned 200 with the id of a stored item that carries
\* the fields of the request.
Succeeded(p) ==
    /\ pc[p] = "done"
    /\ IsBooking(p)
    /\ response[p].statusCode = 200
    /\ \E i \in 1..Len(reservations) :
           reservations[i] = ReservationItem(response[p].body.reservationId, Booked(p))

\* The stored reservations of the table and date p asks for, its own apart.
OthersOnSlot(p) ==
    {r \in Items(reservations) :
        /\ SameTableAndDate(r, Booked(p))
        /\ ~(response[p].statusCode = 200 /\ r.id = response[p].body.reservationId)}

Flagged(existing, start, end) ==
    is_overlapping(existing.slotTimeStart, existing.slotTimeEnd, start, end)

\* C1 as stated: under one-at-a-time execution, is_overlapping is false for
\* every two distinct stored reservations of the same table and date,
\* whichever of the two is taken as the existing one.
C1_NoOverlapEitherWay ==
    \A i, j \in 1..Len(reservations) :
        (/\ i # j
         /\ reservations[i].tableNumber = reservations[j].tableNumber
         /\ reservations[i].date = reservations[j].date)
        => Flagged(reservations[i], reservations[j].slotTimeStart,
                   reservations[j].slotTimeEnd) = "False"

\* C1 as amended: under one-at-a-time execution, is_overlapping is false for
\* every two stored reservations of the same table and date when the one
\* stored first is taken as the existing one and the one stored later as the
\* candidate.
C1_NoOverlapInStoredOrder ==
    \A i, j \in 1..Len(reservations) :
        (/\ i < j
         /\ reservations[i].tableNumber = reservations[j].tableNumber
         /\ reservations[i].date = reservations[j].date)
        => Flagged(reservations[i], reservations[j].slotTimeStart,
                   reservations[j].slotTimeEnd) = "False"

\* C1's case: two reservations of one table and date are stored, and with the
\* later one as the existing one is_overlapping is true.
C1_Witness ==
    \E i, j \in 1..Len(reservations) :
        /\ i < j
        /\ reservations[i].tableNumber = reservations[j].tableNumber
        /\ reservations[i].date = reservations[j].date
        /\ Flagged(reservations[j], reservations[i].slotTimeStart,
                   reservations[i].slotTimeEnd) = "True"

\* What container p's scan of the Reservations store returned.
Scanned(p) == Items(SubSeq(reservations, 1, log[p].seen))

HasScanned(p) ==
    /\ IsBooking(p)
    /\ Len(log[p].calls) >= 2
    /\ log[p].calls[2] = "reservations.scan"

\* Two requests for the same table and date whose slots is_overlapping flags,
\* each having scanned a store without the other's item and without any item
\* that stops it.
Raced(p, q) ==
    /\ p # q
    /\ HasScanned(p) /\ HasScanned(q)
    /\ int(Booked(p).tableNumber) = int(Booked(q).tableNumber)
    /\ Booked(p).date = Booked(q).date
    /\ is_overlapping(Booked(p).slotTimeStart, Booked(p).slotTimeEnd,
                      Booked(q).slotTimeStart, Booked(q).slotTimeEnd) = "True"
    /\ CheckOutcomes(Scanned(p), Booked(p)) = {}
    /\ CheckOutcomes(Scanned(q), Booked(q)) = {}

\* C2: when two concurrent requests for the same table and date with
\* overlapping slots have both scanned the store before either's put landed,
\* both return a reservation id and both items are stored once both are done.
C2_RaceStoresBoth ==
    \A p, q \in Containers :
        (Raced(p, q) /\ pc[p] = "done" /\ pc[q] = "done")
        => /\ Succeeded(p) /\ Succeeded(q)
           /\ response[p].body.reservationId # response[q].body.reservationId

\* C2's case: both requests scanned the empty store, both are done, and the
\* store holds their two overlapping reservations.
C2_Witness ==
    \E p, q \in Containers :
        /\ Raced(p, q) /\ pc[p] = "done" /\ pc[q] = "done"
        /\ log[p].seen = 0 /\ log[q].seen = 0
        /\ Succeeded(p) /\ Succeeded(q)
        /\ Len(reservations) = 2

\* Some stored reservation of the table and date p asks for is flagged by
\* is_overlapping against the slot p asks for.
ConflictStored(p) ==
    \E r \in Items(reservations) :
        /\ SameTableAndDate(r, Booked(p))
        /\ Flagged(r, Booked(p).slotTimeStart, Booked(p).slotTimeEnd) = "True"

\* C4: a create_reservation for an existing table number that finds a stored
\* reservation of the same table and date overlapping its slot fails with the
\* slot-conflict error, and no step of the call changes the Reservations store.
C4_ConflictRejected ==
    [][\A p \in DOMAIN pc :
          /\ (pc[p] = "idle" /\ pc'[p] = "get_reservations")
                => reservations' = reservations
          /\ (pc[p] = "get_reservations" /\ pc'[p] # "get_reservations"
              /\ ConflictStored(p))
                => /\ pc'[p] = "done"
                   /\ response'[p] = ClientError
                   /\ log'[p].error = SlotConflict
                   /\ reservations' = reservations]_vars

\* C4's case: a request was rejected with the slot-conflict error.
C4_Witness ==
    \E p \in DOMAIN pc :
        /\ pc[p] = "done" /\ IsBooking(p)
        /\ ConflictStored(p)
        /\ response[p] = ClientError
        /\ log[p].error = SlotConflict

\* C5: a create_reservation whose tableNumber is the number of no stored table
\* ends in its first step with the table-not-found error, having scanned the
\* Tables store and called the Reservations store not at all.
C5_TableCheckFirst ==
    [][\A p \in DOMAIN pc :
          (/\ pc[p] = "idle" /\ pc'[p] # "idle"
           /\ BodyIsJson(req'[p])
           /\ Route(req'[p]) = "create_reservation"
           /\ ReservationArgsError(request_body(req'[p])) = NoError
           /\ ~\E t \in tables : t.number = int(request_body(req'[p]).tableNumber))
          => /\ pc'[p] = "done"
             /\ response'[p] = ClientError
             /\ log'[p].error = TableNotFound
             /\ log'[p].calls = <<"tables.scan">>
             /\ reservations' = reservations]_vars

\* C5's case: a request for table 1 failed with table-not-found while a table
\* with id 1, and another number, is stored.
C5_Witness ==
    \E p \in DOMAIN pc :
        /\ pc[p] = "done" /\ IsBooking(p)
        /\ log[p].error = TableNotFound
        /\ log[p].calls = <<"tables.scan">>
        /\ \E t \in tables : t.id = int(Booked(p).tableNumber)

\* A slot of valid times that does not end before it starts.
Ordered(start, end) ==
    ValidTime(start) /\ ValidTime(end) /\ Minutes(start) <= Minutes(end)

\* C6: under one-at-a-time execution, a create_reservation for an existing
\* table number and a slot [s2, e2], on a date that holds nothing for the
\* table or one reservation [s1, e1] with s1 <= e1 < s2 <= e2 or
\* s2 <= e2 < s1 <= e1, succeeds: it returns an id and its reservation is
\* stored next to the other one.
C6_DisjointBothSucceed ==
    \A p \in DOMAIN pc :
        (/\ pc[p] = "done" /\ IsBooking(p)
         /\ TableExists(int(Booked(p).tableNumber))
         /\ Ordered(Booked(p).slotTimeStart, Booked(p).slotTimeEnd)
         /\ Cardinality(OthersOnSlot(p)) <= 1
         /\ \A r \in OthersOnSlot(p) :
               /\ Ordered(r.slotTimeStart, r.slotTimeEnd)
               /\ \/ Minutes(r.slotTimeEnd) < Minutes(Booked(p).slotTimeStart)
                  \/ Minutes(Booked(p).slotTimeEnd) < Minutes(r.slotTimeStart))
        => /\ Succeeded(p)
           /\ \A r \in OthersOnSlot(p) : r \in Items(reservations)

\* C6's case: the later slot was booked first, the earlier slot second, and
\* both are stored.
C6_Witness ==
    \E p \in DOMAIN pc :
        /\ Succeeded(p)
        /\ \E r \in OthersOnSlot(p) :
              /\ Ordered(r.slotTimeStart, r.slotTimeEnd)
              /\ Ordered(Booked(p).slotTimeStart, Booked(p).slotTimeEnd)
              /\ Minutes(Booked(p).slotTimeEnd) < Minutes(r.slotTimeStart)
              /\ r.id < response[p].body.reservationId

\* C8 as stated: every create_reservation whose slotTimeStart or slotTimeEnd is
\* no valid HH:MM string fails and stores no reservation, whatever the store
\* holds.
C8_MalformedTimesRejected ==
    \A p \in DOMAIN pc :
        (/\ pc[p] = "done" /\ IsBooking(p)
         /\ ~(ValidTime(Booked(p).slotTimeStart) /\ ValidTime(Booked(p).slotTimeEnd)))
        => /\ response[p] = ClientError
           /\ log[p].error \in {TimeParseError, TableNotFound}

\* C9: for valid times with candidateStart < existingStart and
\* existingEnd < candidateEnd is_overlapping is false, and a create_reservation
\* for an existing table number whose slot strictly contains the slot of the
\* only stored reservation of its table and date succeeds and is stored.
C9_ContainingNotFlagged ==
    \A p \in DOMAIN pc :
        (/\ pc[p] = "done" /\ IsBooking(p)
         /\ TableExists(int(Booked(p).tableNumber))
         /\ ValidTime(Booked(p).slotTimeStart) /\ ValidTime(Booked(p).slotTimeEnd))
        => \A r \in OthersOnSlot(p) :
              (/\ OthersOnSlot(p) = {r}
               /\ ValidTime(r.slotTimeStart) /\ ValidTime(r.slotTimeEnd)
               /\ Minutes(Booked(p).slotTimeStart) < Minutes(r.slotTimeStart)
               /\ Minutes(r.slotTimeEnd) < Minutes(Booked(p).slotTimeEnd))
              => /\ Flagged(r, Booked(p).slotTimeStart, Booked(p).slotTimeEnd) = "False"
                 /\ Succeeded(p)

\* C9's case: the slot booked second strictly contains the slot booked first.
C9_Witness ==
    \E p \in DOMAIN pc :
        /\ Succeeded(p)
        /\ \E r \in OthersOnSlot(p) :
              /\ OthersOnSlot(p) = {r}
              /\ ValidTime(r.slotTimeStart) /\ ValidTime(r.slotTimeEnd)
              /\ ValidTime(Booked(p).slotTimeStart) /\ ValidTime(Booked(p).slotTimeEnd)
              /\ Minutes(Booked(p).slotTimeStart) < Minutes(r.slotTimeStart)
              /\ Minutes(r.slotTimeEnd) < Minutes(Booked(p).slotTimeEnd)

(***************************************************************************)
(* Properties of handle_request, under SeqSpec.                            *)
(***************************************************************************)
Is404(r) == r.statusCode = 404 /\ DOMAIN r = {"statusCode", "body"} /\ r.body = "Not Found"
Is400(r) == r.statusCode = 400 /\ DOMAIN r = {"statusCode"}

\* One of the three kinds of response, matching what the request did.
OneOfThree(p) ==
    /\ response[p].statusCode \in {200, 404, 400}
    /\ response[p].statusCode = 400 <=> log[p].error # NoError
    /\ response[p].statusCode = 404 => Is404(response[p])
    /\ response[p].statusCode = 200 => Route(req[p]) # "not_found"

\* C10 as stated: every request that matches no route gets the 404, whatever
\* its body; every request in which a step raises gets the 400 with no body;
\* each request yields exactly one of a 200, the 404 and the 400.
C10_RouteAndFailureResponses ==
    \A p \in DOMAIN pc :
        pc[p] = "done" =>
            /\ Route(req[p]) = "not_found" => Is404(response[p])
            /\ log[p].error # NoError => Is400(response[p])
            /\ OneOfThree(p)

\* C10 as amended: every request that matches no route and whose body is
\* absent, empty or valid JSON gets the 404; every request in which a step
\* raises, json.loads of the body included, gets the 400 with no body; each
\* request yields exactly one of a 200, the 404 and the 400.
C10_ResponsesWithReadableBody ==
    \A p \in DOMAIN pc :
        pc[p] = "done" =>
            /\ (Route(req[p]) = "not_found" /\ BodyIsJson(req[p])) => Is404(response[p])
            /\ (Route(req[p]) = "not_found" /\ ~BodyIsJson(req[p])) => Is400(response[p])
            /\ log[p].error # NoError => Is400(response[p])
            /\ OneOfThree(p)

\* C10's case: a request with a JSON body under a known path and another
\* method got the 404.
C10_Witness ==
    \E p \in DOMAIN pc :
        /\ pc[p] = "done"
        /\ req[p].body.kind = "object"
        /\ StripApi(req[p].path) = <<"tables">>
        /\ Is404(response[p])

(***************************************************************************)
(* What the caller of create_reservation is told.                          *)
(***************************************************************************)
\* The request of p went to the create-reservation route and a step of it
\* raised.
FailedBooking(p) ==
    /\ pc[p] = "done"
    /\ BodyIsJson(req[p])
    /\ Route(req[p]) = "create_reservation"
    /\ log[p].error # NoError

BookingFailures == {KeyError, IntValueError, TableNotFound, SlotConflict, TimeParseError}

\* C11: every create-reservation request that fails, for a missing field, an
\* unknown table number, a conflicting slot or a malformed time, gets the
\* response {statusCode: 400} with no body; any two failing requests, whatever
\* their failure and whatever the stores held, get equal responses.
C11_OpaqueFailures ==
    \A p, q \in DOMAIN pc :
        (FailedBooking(p) /\ FailedBooking(q))
        => /\ log[p].error \in BookingFailures
           /\ Is400(response[p])
           /\ response[p] = response[q]

\* C11's case: one request failed on a conflicting slot and another, at the
\* same time, on something else; both callers hold the same response.
C11_Witness ==
    \E p, q \in DOMAIN pc :
        /\ FailedBooking(p) /\ FailedBooking(q)
        /\ log[p].error = SlotConflict
        /\ log[q].error \in {KeyError, TableNotFound, TimeParseError}
        /\ response[p] = response[q]

(***************************************************************************)
(* Properties of the Table Directory, under DirectorySpec.                 *)
(***************************************************************************)
\* In this step container p takes a create-table request whose body it can
\* read, for id table_id.
CreatesTable(p, table_id) ==
    /\ pc[p] = "idle" /\ pc'[p] = "done"
    /\ BodyIsJson(req'[p])
    /\ Route(req'[p]) = "create_table"
    /\ TableArgsError(request_body(req'[p])) = NoError
    /\ int(request_body(req'[p]).id) = table_id

\* Table `table` carries the attributes body b gave to create_table, minOrder
\* among them exactly when b has it.
CarriesGiven(table, b) ==
    /\ table.id = int(b.id)
    /\ table.number = int(b.number)
    /\ table.places = int(b.places)
    /\ table.isVip = bool(b.isVip)
    /\ DOMAIN table = IF "minOrder" \in DOMAIN b
                      THEN {"id", "number", "places", "isVip", "minOrder"}
                      ELSE {"id", "number", "places", "isVip"}
    /\ "minOrder" \in DOMAIN b => table.minOrder = int(b.minOrder)

TableIds == {1, 2, 3}

\* In this step container p answers a get-table request for id table_id.
ReadsTable(p, table_id) ==
    /\ pc[p] = "idle" /\ pc'[p] = "done"
    /\ BodyIsJson(req'[p])
    /\ Route(req'[p]) = "get_table"
    /\ IntOfSegment(StripApi(req'[p].path)[2]) = table_id

\* C12: every create_table call is accepted, whether or not its id or its
\* number is in use, and returns its id; right after it get_table(id) gives
\* exactly the attributes of that call, minOrder if and only if the call
\* had it; what get_table(id) gives changes in no other step; and a get-table
\* request is answered with what get_table(id) gives.
C12_LastCreateWins ==
    [][\A table_id \in TableIds :
          /\ \A p \in DOMAIN pc :
                CreatesTable(p, table_id)
                => /\ response'[p] = [statusCode |-> 200, body |-> [id |-> table_id]]
                   /\ get_table(table_id)'.error = NoError
                   /\ CarriesGiven(get_table(table_id)'.table, request_body(req'[p]))
          /\ (~\E p \in DOMAIN pc : CreatesTable(p, table_id))
                => get_table(table_id)' = get_table(table_id)
          /\ \A p \in DOMAIN pc :
                (ReadsTable(p, table_id) /\ get_table(table_id).error = NoError)
                => response'[p] = [statusCode |-> 200, body |-> get_table(table_id).table]]_vars

\* The request of p made a table, and was told so.
MadeTable(p) ==
    /\ pc[p] = "done"
    /\ BodyIsJson(req[p])
    /\ Route(req[p]) = "create_table"
    /\ response[p].statusCode = 200

\* C12's case: two requests made a table under the same id, one with
\* minOrder and one without, both were accepted, and get_table gives the
\* attributes of the one without.
C12_Witness ==
    \E p, q \in DOMAIN pc :
        /\ MadeTable(p) /\ MadeTable(q)
        /\ response[p].body.id = response[q].body.id
        /\ "minOrder" \in DOMAIN request_body(req[q])
        /\ "minOrder" \notin DOMAIN request_body(req[p])
        /\ get_table(response[p].body.id).error = NoError
        /\ CarriesGiven(get_table(response[p].body.id).table, request_body(req[p]))

\* The listing p was answered with.
Listed(p) == response[p].body.tables

\* In this step container p answers a list-tables request.
ListsTables(p) ==
    /\ pc[p] = "idle" /\ pc'[p] = "done"
    /\ BodyIsJson(req'[p])
    /\ Route(req'[p]) = "get_tables"

\* C13: whatever tables were made, in whatever order, and in whatever order
\* the scan yields them, a list-tables request is answered with each stored
\* table exactly once, in strictly ascending order of id.
C13_SortedListing ==
    [][\A p \in DOMAIN pc :
          ListsTables(p)
          => /\ response'[p].statusCode = 200
             /\ \A i, j \in 1..Len(Listed(p)') : i < j => Listed(p)'[i].id < Listed(p)'[j].id
             /\ Len(Listed(p)') = Cardinality(tables)
             /\ \A t \in tables : \E i \in 1..Len(Listed(p)') : Listed(p)'[i] = t]_vars

\* C13's case: three tables are listed by ascending id, the first of them
\* with the attributes another container's request gave to id 1.
C13_Witness ==
    \E p, q \in DOMAIN pc :
        /\ pc[p] = "done" /\ Route(req[p]) = "get_tables" /\ BodyIsJson(req[p])
        /\ response[p].statusCode = 200
        /\ Len(Listed(p)) = 3
        /\ Listed(p)[1].id = 1 /\ Listed(p)[3].id = 3
        /\ MadeTable(q) /\ response[q].body.id = 1
        /\ CarriesGiven(Listed(p)[1], request_body(req[q]))

\* C14 as stated: a table once stored is stored with the same attributes in
\* every later state.
C14_TablesNeverChange ==
    [][\A t \in tables : t \in tables']_vars

\* C14 as amended: a stored table changes only in a create_table step for its
\* own id, which replaces its attributes by those of the call; every other
\* step leaves it as it is, and no step removes an id from the store.
C14_TablesChangeOnlyByCreate ==
    [][\A t \in tables :
          /\ \E u \in tables' : u.id = t.id
          /\ t \notin tables'
                => \E p \in DOMAIN pc :
                      /\ CreatesTable(p, t.id)
                      /\ \E u \in tables' :
                            /\ CarriesGiven(u, request_body(req'[p]))
                            /\ \A v \in tables' : v.id = t.id => v = u]_vars

\* C14's case: a create-table request has just given a stored table its
\* attributes, and a reservation is stored for a table number that no table
\* has any more: the table that had it was replaced.
C14_Witness ==
    \E p \in DOMAIN pc :
        /\ MadeTable(p)
        /\ \E t \in tables : CarriesGiven(t, request_body(req[p]))
        /\ \E r \in Items(reservations) : ~TableExists(r.tableNumber)

(***************************************************************************)
(* Properties of the Reservations store.                                   *)
(***************************************************************************)
\* In this step container p ends a create-reservation request with a 200.
BookingSucceeds(p) ==
    /\ pc[p] # "done" /\ pc'[p] = "done"
    /\ Route(req'[p]) = "create_reservation"
    /\ response'[p].statusCode = 200

\* Record r has id reservation_id and the fields of body b.
RecordOf(r, reservation_id, b) ==
    /\ r.id = reservation_id
    /\ r.tableNumber = int(b.tableNumber)
    /\ r.clientName = b.clientName
    /\ r.phoneNumber = b.phoneNumber
    /\ r.date = b.date
    /\ r.slotTimeStart = b.slotTimeStart
    /\ r.slotTimeEnd = b.slotTimeEnd

\* C15: in every step of every interleaving the stored reservations stay as
\* they are; a step in which a create_reservation succeeds adds exactly one
\* record, with the request's fields and the returned id, which no record
\* already stored has; every other step, a failing create_reservation among
\* them, leaves the Reservations store unchanged.
C15_AppendOnlyLedger ==
    [][/\ Len(reservations') >= Len(reservations)
       /\ \A i \in 1..Len(reservations) : reservations'[i] = reservations[i]
       /\ \A p \in DOMAIN pc :
             BookingSucceeds(p)
             => /\ Len(reservations') = Len(reservations) + 1
                /\ RecordOf(reservations'[Len(reservations')],
                            response'[p].body.reservationId, request_body(req'[p]))
                /\ \A i \in 1..Len(reservations) :
                      reservations[i].id # response'[p].body.reservationId
       /\ (~\E p \in DOMAIN pc : BookingSucceeds(p)) => reservations' = reservations]_vars

\* C15's case: one request has added the third record to the ledger while
\* another request stands rejected, and the ids of the records all differ.
C15_Witness ==
    \E p, q \in DOMAIN pc :
        /\ Succeeded(p) /\ FailedBooking(q)
        /\ Len(reservations) >= 3
        /\ response[p].body.reservationId = reservations[Len(reservations)].id
        /\ \A i, j \in 1..Len(reservations) :
              i # j => reservations[i].id # reservations[j].id

(***************************************************************************)
(* Reading a table that is not there, under DirectorySpec.                 *)
(***************************************************************************)
\* C16: a get-table request for an id under which no table is stored fails:
\* the lookup raises for want of the item, the caller gets the failure
\* response and no 200 with a table, and neither store changes.
C16_UnknownIdFails ==
    [][\A table_id \in TableIds : \A p \in DOMAIN pc :
          (ReadsTable(p, table_id) /\ ~\E t \in tables : t.id = table_id)
          => /\ response'[p].statusCode # 200
             /\ response'[p] = ClientError
             /\ log'[p].error = KeyError
             /\ log'[p].calls = <<"tables.get_item">>
             /\ tables' = tables
             /\ reservations' = reservations]_vars

\* C16's case: a request for a table by an id that is not stored has failed
\* while tables under other ids are stored.
C16_Witness ==
    \E p \in DOMAIN pc :
        /\ pc[p] = "done"
        /\ BodyIsJson(req[p])
        /\ Route(req[p]) = "get_table"
        /\ response[p] = ClientError
        /\ tables # {}
        /\ ~\E t \in tables : t.id = IntOfSegment(StripApi(req[p].path)[2])

(***************************************************************************)
(* What a booking is checked against.                                      *)
(***************************************************************************)
\* The stored reservations with the table number and the date string of
\* body b.
OnSlot(b) == {r \in Items(reservations) : SameTableAndDate(r, b)}

WellFormed(r) == ValidTime(r.slotTimeStart) /\ ValidTime(r.slotTimeEnd)

\* In this step container p checks its slot against the stored reservations.
ChecksSlot(p) == pc[p] = "get_reservations" /\ pc'[p] # "get_reservations"

\* C17: when the stored reservations of the request's table number and
\* date have well-formed times, a create_reservation for an existing table
\* number fails with the slot-conflict error if and only if is_overlapping is
\* true for one of them against the proposed slot; when no reservation is
\* stored with that table number and exactly that date string, the request is
\* not rejected, whatever else is stored.
C17_ConflictsScopedToTableAndDate ==
    [][\A p \in DOMAIN pc :
          (ChecksSlot(p) /\ \A r \in OnSlot(Booked(p)) : WellFormed(r))
          => /\ (pc'[p] = "done" /\ response'[p] = ClientError
                 /\ log'[p].error = SlotConflict)
                <=> \E r \in OnSlot(Booked(p)) :
                       Flagged(r, Booked(p).slotTimeStart, Booked(p).slotTimeEnd) = "True"
             /\ OnSlot(Booked(p)) = {} => pc'[p] = "put_item"]_vars

\* C17's case: a slot was refused on one date and the same slot of the same
\* table accepted on another date, next to it in the store.
C17_Witness ==
    \E p, q \in DOMAIN pc :
        /\ FailedBooking(p) /\ log[p].error = SlotConflict
        /\ Succeeded(q)
        /\ int(Booked(q).tableNumber) = int(Booked(p).tableNumber)
        /\ Booked(q).slotTimeStart = Booked(p).slotTimeStart
        /\ Booked(q).slotTimeEnd = Booked(p).slotTimeEnd
        /\ Booked(q).date # Booked(p).date
        /\ \A r \in Items(reservations) : WellFormed(r)
        /\ log[q].seen >= 1

(***************************************************************************)
(* The ledger in the order it was written, under SeqSpec.                  *)
(***************************************************************************)
\* Time string t lies in the inclusive range of reservation r's slot.
InRange(t, r) ==
    /\ Minutes(r.slotTimeStart) <= Minutes(t)
    /\ Minutes(t) <= Minutes(r.slotTimeEnd)

\* C18: under one-at-a-time execution, of every two stored reservations with
\* equal tableNumber and date all four times are times of day, and neither
\* the start nor the end of the one stored later lies in the inclusive range
\* [slotTimeStart, slotTimeEnd] of the one stored earlier.
C18_LaterEndsOutsideEarlierRange ==
    \A j \in 1..Len(reservations) : \A i \in 1..(j - 1) :
        LET A == reservations[i]
            B == reservations[j]
        IN  (A.tableNumber = B.tableNumber /\ A.date = B.date)
            => /\ WellFormed(A) /\ WellFormed(B)
               /\ ~InRange(B.slotTimeStart, A)
               /\ ~InRange(B.slotTimeEnd, A)

\* C18's case: three reservations of one table and date, stored one after
\* the other, the last with a slot that strictly contains the second's.
C18_Witness ==
    \E i, j, k \in 1..Len(reservations) :
        /\ i < j /\ j < k
        /\ reservations[i].tableNumber = reservations[k].tableNumber
        /\ reservations[j].tableNumber = reservations[k].tableNumber
        /\ reservations[i].date = reservations[k].date
        /\ reservations[j].date = reservations[k].date
        /\ Minutes(reservations[k].slotTimeStart) < Minutes(reservations[j].slotTimeStart)
        /\ Minutes(reservations[j].slotTimeEnd) < Minutes(reservations[k].slotTimeEnd)

(***************************************************************************)
(* Reservations and the tables they name.                                  *)
(***************************************************************************)
NamesATable(table_number) == \E t \in tables : t.number = table_number

\* C19 as stated: in every reachable state every stored reservation's
\* tableNumber is the number of at least one stored table.
C19_ReservationsNameATable ==
    \A r \in Items(reservations) : NamesATable(r.tableNumber)

\* Every stored reservation, and every create_reservation that has passed its
\* table check and not yet put its item, names the number of a stored table.
Integrity ==
    /\ \A r \in Items(reservations) : NamesATable(r.tableNumber)
    /\ \A p \in InFlight : NamesATable(int(Booked(p).tableNumber))

\* Every number a stored table has is the number of a stored table after the
\* step: no create_table has replaced the last table of a number by a table
\* of another number.
NumbersKept == \A t \in tables : \E u \in tables' : u.number = t.number

\* C19 as amended: a create_reservation goes on only for the number of a
\* stored table, and the tableNumbers of the stored reservations and of the
\* requests under way stay numbers of stored tables in every step, except a
\* create_table that replaces a table by one with another number.
C19_IntegrityUntilRenumbered ==
    [][(Integrity /\ NumbersKept) => Integrity']_vars

\* C19's case: two reservations are stored, one of them by a request that
\* has just returned, another container has just made a table, and every
\* reservation names a stored table.
C19_Witness ==
    \E p, q \in DOMAIN pc :
        /\ Succeeded(p) /\ MadeTable(q)
        /\ Len(reservations) >= 2
        /\ Integrity

(***************************************************************************)
(* Two bookings that have nothing to do with each other.                   *)
(***************************************************************************)
\* The requests of p and q are create_reservation calls for different pairs
\* of table number and date, and both have returned.
Unrelated(p, q) ==
    /\ p # q
    /\ pc[p] = "done" /\ pc[q] = "done"
    /\ IsBooking(p) /\ IsBooking(q)
    /\ ~(/\ int(Booked(p).tableNumber) = int(Booked(q).tableNumber)
         /\ Booked(p).date = Booked(q).date)

\* The record the request of q has put, if it has put one.
Own(q) ==
    {r \in Items(reservations) :
        response[q].statusCode = 200 /\ r.id = response[q].body.reservationId}

\* What the request of p ended with is what the check of its slot gives
\* against the records `view`.
OutcomeAgainst(p, view) ==
    LET outcomes == CheckOutcomes(view, Booked(p))
    IN  /\ response[p].statusCode = 200 <=> outcomes = {}
        /\ response[p].statusCode # 200 =>
              /\ response[p] = ClientError
              /\ log[p].error \in {SlotConflict, TimeParseError}
              /\ log[p].error = SlotConflict => "True" \in outcomes
              /\ log[p].error = TimeParseError => "ValueError" \in outcomes

\* C20: of two concurrent create_reservation calls for different pairs of
\* table number and date, however their scans and puts interleave, each ends
\* as it would have ended had it run before the other (its scan without the
\* other's record) and as it would have ended had it run after the other
\* (its scan with the other's record), and the ledger holds, next to what
\* the calls found, the record of each call that succeeded, under its own id.
C20_UnrelatedBookingsIndependent ==
    \A p, q \in DOMAIN pc :
        (Unrelated(p, q) /\ HasScanned(p))
        => /\ OutcomeAgainst(p, Scanned(p) \ Own(q))
           /\ OutcomeAgainst(p, Scanned(p) \cup Own(q))
           /\ response[p].statusCode = 200 => Succeeded(p)
           /\ Own(p) \cap Own(q) = {}
           /\ Cardinality(Own(p)) = IF response[p].statusCode = 200 THEN 1 ELSE 0

\* C20's case: the same slot of the same table was asked for under two
\* date strings at the same time, each request scanned the ledger before
\* the other's record was in it, and both records are stored.
C20_Witness ==
    \E p, q \in DOMAIN pc :
        /\ Unrelated(p, q)
        /\ Succeeded(p) /\ Succeeded(q)
        /\ int(Booked(p).tableNumber) = int(Booked(q).tableNumber)
        /\ is_overlapping(Booked(p).slotTimeStart, Booked(p).slotTimeEnd,
                          Booked(q).slotTimeStart, Booked(q).slotTimeEnd) = "True"
        /\ log[p].seen < response[q].body.reservationId
        /\ log[q].seen < response[p].body.reservationId

====
